---- MODULE Spec2Model ----
(***************************************************************************)
(* The packaging manifest data-services/smd-service/src/setup.py: one call *)
(* of setuptools' setup() that declares the distribution "importer", the   *)
(* packages find_packages() collects, and one console script.              *)
(*                                                                         *)
(* The state is what the call and the installer that runs it leave behind: *)
(* the metadata record, the console commands registered on the shell's     *)
(* path, and the calls the registered launcher has made.  Strings are TLA+ *)
(* strings; Head, Tail, Len, SubSeq and \o work on them character by       *)
(* character, so matching and parsing are computed, not assumed.           *)
(***************************************************************************)
EXTENDS Integers, Sequences, FiniteSets, TLC

VARIABLES
    tree,        \* directories under the script's directory holding __init__.py
    interp,      \* <<major, minor>> of the interpreter that runs the installation
    installer,   \* "pip" (checks Requires-Python) or "setup.py" (script run directly)
    pc,          \* "start", "read", "registered" or "rejected"
    metadata,    \* the keyword arguments setup() received
    registered,  \* the console commands the installation has put on the path
    calls,       \* the targets called by launchers, oldest first
    last         \* the latest shell command and its outcome

vars == <<tree, interp, installer, pc, metadata, registered, calls, last>>

---------------------------------------------------------------------------
(* Bounds *)

MaxMajor == 4

MaxInvocations == 2

\* The directories that may exist beside the script, as paths of segments.
DirUniverse ==
    { <<"docs">>, <<"docs", "api">>,
      <<"tests">>, <<"tests", "unit">>, <<"tests_helpers">>,
      <<"glueservice">>, <<"glueservice", "tests">>,
      <<"importer.egg-info">> }

Interpreters == { <<m, n>> : m \in 2..MaxMajor, n \in {0, 7} }

Installers == {"pip", "setup.py"}

\* What a user may type at the shell.
Commands == {"glueservice", "importer"}

---------------------------------------------------------------------------
(* String helpers *)

RECURSIVE Contains(_, _)
Contains(s, c) ==
    IF s = "" THEN FALSE
    ELSE Head(s) = c \/ Contains(Tail(s), c)

\* Index of the first occurrence of the character c in s, 0 when absent.
RECURSIVE Find(_, _)
Find(s, c) ==
    IF s = "" THEN 0
    ELSE IF Head(s) = c THEN 1
    ELSE LET r == Find(Tail(s), c) IN IF r = 0 THEN 0 ELSE r + 1

RECURSIVE lstrip(_)
lstrip(s) ==
    IF s # "" /\ Head(s) = " " THEN lstrip(Tail(s)) ELSE s

RECURSIVE rstrip(_)
rstrip(s) ==
    IF s # "" /\ SubSeq(s, Len(s), Len(s)) = " "
    THEN rstrip(SubSeq(s, 1, Len(s) - 1))
    ELSE s

strip(s) == rstrip(lstrip(s))

\* s.split(c): the pieces of s between occurrences of the character c.
RECURSIVE split(_, _)
split(s, c) ==
    LET i == Find(s, c) IN
    IF i = 0 THEN <<s>>
    ELSE <<SubSeq(s, 1, i - 1)>> \o split(SubSeq(s, i + 1, Len(s)), c)

\* c.join(parts)
RECURSIVE join(_, _)
join(parts, c) ==
    IF parts = <<>> THEN ""
    ELSE IF Len(parts) = 1 THEN parts[1]
    ELSE parts[1] \o c \o join(Tail(parts), c)

DigitVal(c) == CHOOSE d \in 0..9 : ToString(d) = c

RECURSIVE int(_)
int(s) ==
    IF s = "" THEN 0
    ELSE 10 * int(SubSeq(s, 1, Len(s) - 1)) + DigitVal(SubSeq(s, Len(s), Len(s)))


---------------------------------------------------------------------------
(* setuptools: find_packages *)

\* fnmatch.fnmatchcase(name, pat): case-sensitive shell-style match of the
\* whole name; "*" matches any run of characters (dots included), "?" one.
RECURSIVE fnmatchcase(_, _)
fnmatchcase(name, pat) ==
    IF pat = "" THEN name = ""
    ELSE IF Head(pat) = "*"
         THEN fnmatchcase(name, Tail(pat))
              \/ (name # "" /\ fnmatchcase(Tail(name), pat))
    ELSE IF name = "" THEN FALSE
    ELSE (Head(pat) = "?" \/ Head(pat) = Head(name))
         /\ fnmatchcase(Tail(name), Tail(pat))

\* The filter find_packages builds from a pattern list: any pattern matches.
build_filter(patterns, name) ==
    \E pat \in patterns : fnmatchcase(name, pat)

\* The dotted package name of a directory path.
package(path) == join(path, ".")

\* The walk descends into a directory when it is a valid package directory
\* (no dot in its own name, an __init__.py inside) and no exclude pattern
\* says that nothing below it can be wanted.
descends(where, exclude, path) ==
    /\ path \in where
    /\ ~Contains(path[Len(path)], ".")
    /\ (package(path) \o "*") \notin exclude
    /\ (package(path) \o ".*") \notin exclude

\* The variant in which an excluded package hides everything below it.
find_packages_pruning(where, exclude, include) ==
    { package(p) : p \in
        { q \in where :
            /\ ~Contains(q[Len(q)], ".")
            /\ \A k \in 1..Len(q) :
                 /\ SubSeq(q, 1, k) \in where
                 /\ ~build_filter(exclude, package(SubSeq(q, 1, k)))
            /\ build_filter(include, package(q)) } }

\* find_packages(where, exclude, include): every package directory the walk
\* visits whose dotted name passes include and is not caught by exclude.
\* Sub-directories are searched even when the parent was excluded.
find_packages(where, exclude, include) ==
    { package(p) : p \in
        { q \in where :
            /\ ~Contains(q[Len(q)], ".")
            /\ \A k \in 1..(Len(q) - 1) : descends(where, exclude, SubSeq(q, 1, k))
            /\ build_filter(include, package(q))
            /\ ~build_filter(exclude, package(q)) } }

---------------------------------------------------------------------------
(* packaging: the Requires-Python specifier *)

\* The release numbers of a version string: "3.8" is <<3, 8>>.
release(v) ==
    LET parts == split(strip(v), ".")
    IN  [i \in 1..Len(parts) |-> int(parts[i])]

\* Comparison of two releases, the shorter one padded with zeros:
\* -1, 0 or 1.
RECURSIVE cmp(_, _)
cmp(a, b) ==
    IF a = <<>> /\ b = <<>> THEN 0
    ELSE LET x == IF a = <<>> THEN 0 ELSE Head(a)
             y == IF b = <<>> THEN 0 ELSE Head(b)
         IN  IF x < y THEN -1
             ELSE IF x > y THEN 1
             ELSE cmp(IF a = <<>> THEN a ELSE Tail(a),
                      IF b = <<>> THEN b ELSE Tail(b))

\* The comparison operator a specifier starts with.
RECURSIVE operator(_)
operator(s) ==
    IF s # "" /\ Head(s) \in {"<", ">", "=", "!"}
    THEN Head(s) \o operator(Tail(s))
    ELSE ""

\* Specifier(s).contains(ver) for one clause such as ">=3".
contains(s, ver) ==
    LET op == operator(strip(s))
        c  == cmp(ver, release(SubSeq(strip(s), Len(op) + 1, Len(strip(s)))))
    IN  CASE op = ">=" -> c >= 0
          [] op = "<=" -> c <= 0
          [] op = ">"  -> c > 0
          [] op = "<"  -> c < 0
          [] op = "==" -> c = 0
          [] op = "!=" -> c # 0
          [] OTHER     -> FALSE

\* SpecifierSet(requires).contains(ver): every comma-separated clause holds.
satisfies(requires, ver) ==
    LET clauses == split(requires, ",")
    IN  \A i \in 1..Len(clauses) : contains(clauses[i], ver)

---------------------------------------------------------------------------
(* setuptools: console_scripts entry points *)

\* "name = module:attr" parsed into its three parts.
parse_entry_point(src) ==
    LET i     == Find(src, "=")
        value == strip(SubSeq(src, i + 1, Len(src)))
        j     == Find(value, ":")
    IN  [ name   |-> strip(SubSeq(src, 1, i - 1)),
          module |-> IF j = 0 THEN value ELSE strip(SubSeq(value, 1, j - 1)),
          attr   |-> IF j = 0 THEN "" ELSE strip(SubSeq(value, j + 1, Len(value))) ]

\* The launchers an installation writes for a metadata record.
console_scripts(md) ==
    { parse_entry_point(md.entry_points.console_scripts[i]) :
        i \in 1..Len(md.entry_points.console_scripts) }

---------------------------------------------------------------------------
(* The manifest: the keyword arguments of the setup() call *)

name_glueservice == "glueservice"

name == "importer"

version == "0.1.0"

python_requires_2 == ">=2"

python_requires == ">=3"

exclude_no_star == {"docs", "tests"}

exclude == {"docs", "tests*"}

\* find_packages' default for include.
include == {"*"}

packages(where) == find_packages(where, exclude, include)

entry_points_two ==
    [ console_scripts |-> << "glueservice = glueservice.__main__:main",
                             "importer = glueservice.__main__:main" >> ]

entry_points_other_target ==
    [ console_scripts |-> << "glueservice = glueservice.main:main" >> ]

entry_points ==
    [ console_scripts |-> << "glueservice = glueservice.__main__:main" >> ]

author == "Marco Peise"

author_email == "mp@ise.tu-berlin.de"

license == "MIT License"

\* The record setup() receives when the script runs in a directory whose
\* package directories are `where`.
setup(where) ==
    [ name            |-> name,
      version         |-> version,
      python_requires |-> python_requires,
      packages        |-> packages(where),
      entry_points    |-> entry_points,
      author          |-> author,
      author_email    |-> author_email,
      license         |-> license ]

\* The record before the script has run.
NoMetadata ==
    [ name            |-> "",
      version         |-> "",
      python_requires |-> "",
      packages        |-> {},
      entry_points    |-> [console_scripts |-> <<>>],
      author          |-> "",
      author_email    |-> "",
      license         |-> "" ]

\* glueservice.__main__:main is not part of the manifest; its effect on the
\* metadata record is none (the record is read once, at build/install time).
main(md) == md

---------------------------------------------------------------------------
(* The installation and the shell *)

Init ==
    /\ tree \in SUBSET DirUniverse
    /\ interp \in Interpreters
    /\ installer \in Installers
    /\ pc = "start"
    /\ metadata = NoMetadata
    /\ registered = {}
    /\ calls = <<>>
    /\ last = [command |-> "", outcome |-> "none"]

\* The installer runs the script: setup() is called with its arguments.
ReadDescriptor ==
    /\ pc = "start"
    /\ metadata' = setup(tree)
    /\ pc' = "read"
    /\ UNCHANGED <<tree, interp, installer, registered, calls, last>>

\* pip compares Requires-Python with the running interpreter and stops.
Reject ==
    /\ pc = "read"
    /\ installer = "pip"
    /\ ~satisfies(metadata.python_requires, interp)
    /\ pc' = "rejected"
    /\ UNCHANGED <<tree, interp, installer, metadata, registered, calls, last>>

\* A registration that uses up the entry points it registers.
RegisterConsuming ==
    /\ pc = "read"
    /\ installer = "pip" => satisfies(metadata.python_requires, interp)
    /\ registered' = console_scripts(metadata)
    /\ metadata' = [metadata EXCEPT !.entry_points.console_scripts = <<>>]
    /\ pc' = "registered"
    /\ UNCHANGED <<tree, interp, installer, calls, last>>

\* The installation writes one launcher per console_scripts entry.  Running
\* the script directly ("setup.py install") does not look at python_requires.
Register ==
    /\ pc = "read"
    /\ installer = "pip" => satisfies(metadata.python_requires, interp)
    /\ registered' = console_scripts(metadata)
    /\ pc' = "registered"
    /\ UNCHANGED <<tree, interp, installer, metadata, calls, last>>

\* A command typed at the shell: a registered launcher imports its module and
\* calls the attribute; any other name is not found.
Invoke(cmd) ==
    /\ Len(calls) < MaxInvocations
    /\ IF \E r \in registered : r.name = cmd
       THEN \E r \in registered :
              /\ r.name = cmd
              /\ calls' = Append(calls, [command |-> cmd, module |-> r.module,
                                         attr |-> r.attr])
              /\ metadata' = main(metadata)
              /\ last' = [command |-> cmd, outcome |-> "ran"]
       ELSE /\ last' = [command |-> cmd, outcome |-> "not found"]
            /\ UNCHANGED <<calls, metadata>>
    /\ UNCHANGED <<tree, interp, installer, pc, registered>>

Next ==
    \/ ReadDescriptor
    \/ Reject
    \/ Register
    \/ \E cmd \in Commands : Invoke(cmd)

Spec == Init /\ [][Next]_vars

---------------------------------------------------------------------------
(* Properties *)

\* The package names the walk finds when nothing is excluded.
Discovered == find_packages(tree, {}, include)

StartsWith(s, prefix) ==
    Len(s) >= Len(prefix) /\ SubSeq(s, 1, Len(prefix)) = prefix

\* The one launcher the manifest declares.
Glueservice ==
    [name |-> "glueservice", module |-> "glueservice.__main__", attr |-> "main"]

\* The call that launcher makes.
GlueserviceCall ==
    [command |-> "glueservice", module |-> "glueservice.__main__", attr |-> "main"]

\* C1: once setup() has been called, the packages list holds exactly the
\* discovered package names that are not "docs" and do not match "tests*"
\* (do not begin with "tests").
C1_ExcludedPaths ==
    pc # "start" =>
        /\ metadata.packages \subseteq Discovered
        /\ \A n \in Discovered :
             n \in metadata.packages <=> (n # "docs" /\ ~StartsWith(n, "tests"))

C1_Witness ==
    /\ pc = "read"
    /\ {"docs", "tests", "tests.unit", "glueservice"} \subseteq Discovered
    /\ "glueservice" \in metadata.packages
    /\ "docs" \notin metadata.packages
    /\ "tests.unit" \notin metadata.packages

\* C2: the manifest declares exactly one console script; an installation
\* registers exactly the command "glueservice" with the target
\* glueservice.__main__:main, and no command of another name is ever
\* registered.
C2_OneConsoleCommand ==
    /\ pc # "start" =>
         /\ Len(metadata.entry_points.console_scripts) = 1
         /\ console_scripts(metadata) = {Glueservice}
    /\ pc = "registered" =>
         /\ registered = {Glueservice}
         /\ Cardinality({r.name : r \in registered}) = 1
    /\ \A r \in registered : r.name = "glueservice"

C2_Witness ==
    /\ pc = "registered"
    /\ registered = {Glueservice}
    /\ last = [command |-> "importer", outcome |-> "not found"]

\* C3: commands are registered only by the step that follows the reading of
\* the descriptor; a call is made only once the command is registered, every
\* call goes to glueservice.__main__:main, and every invocation of
\* "glueservice" after registration makes that call.
C3_Lifecycle ==
    /\ [][ /\ registered' # registered =>
                /\ pc = "read"
                /\ pc' = "registered"
                /\ metadata = setup(tree)
           /\ pc' = "registered" => pc \in {"read", "registered"}
           /\ calls' # calls =>
                /\ pc = "registered"
                /\ calls' = Append(calls, GlueserviceCall)
           /\ ( /\ pc = "registered"
                /\ last'.command = "glueservice"
                /\ last' # last )
              => calls' = Append(calls, GlueserviceCall)
           /\ (pc # "registered" /\ last' # last) =>
                /\ last'.outcome = "not found"
                /\ calls' = calls ]_vars
    /\ [](calls # <<>> => pc = "registered")
    /\ [](\A i \in 1..Len(calls) : calls[i] = GlueserviceCall)

C3_Witness ==
    /\ pc = "registered"
    /\ Len(calls) >= 1
    /\ calls[Len(calls)] = GlueserviceCall
    /\ last = [command |-> "glueservice", outcome |-> "ran"]

\* C4: the declared package name is "importer"; the console command and the
\* top-level module of its target are both "glueservice", and the package
\* name is neither.
C4_PackageName ==
    pc # "start" =>
        /\ metadata.name = "importer"
        /\ \A r \in console_scripts(metadata) :
             /\ r.name = "glueservice"
             /\ split(r.module, ".")[1] = "glueservice"
             /\ metadata.name # r.name
             /\ metadata.name # split(r.module, ".")[1]

C4_Witness ==
    /\ pc = "registered"
    /\ metadata.name = "importer"
    /\ \E r \in registered : r.name = "glueservice" /\ r.name # metadata.name

\* C5 as stated: the requirement is ">=3", only an interpreter of major
\* version 3 or more reaches the registered state, and an installation under
\* an older interpreter ends rejected with no command registered.
C5_AsStated ==
    /\ pc # "start" => metadata.python_requires = ">=3"
    /\ pc = "registered" => interp[1] >= 3
    /\ (interp[1] < 3 /\ pc \notin {"start", "read"}) =>
         (pc = "rejected" /\ registered = {})

\* C5 amended: the requirement is ">=3"; an installation by pip, which checks
\* it, reaches the registered state only under major version 3 or more and
\* under an older interpreter ends rejected with no command registered; a
\* rejection happens in no other case.
C5_Amended ==
    /\ pc # "start" => metadata.python_requires = ">=3"
    /\ installer = "pip" =>
         /\ pc = "registered" => interp[1] >= 3
         /\ (interp[1] < 3 /\ pc \notin {"start", "read"}) =>
              (pc = "rejected" /\ registered = {})
    /\ pc = "rejected" =>
         (installer = "pip" /\ interp[1] < 3 /\ registered = {})

C5_Witness ==
    /\ installer = "pip"
    /\ interp = <<2, 7>>
    /\ pc = "rejected"
    /\ registered = {}
    /\ last = [command |-> "glueservice", outcome |-> "not found"]

\* Other values the free-text fields could have held.
FreeText == {"", "someone else"}

C7_FullDottedName ==
    pc # "start" =>
        /\ "docs.api" \in Discovered => "docs.api" \in metadata.packages
        /\ "glueservice.tests" \in Discovered =>
             "glueservice.tests" \in metadata.packages
        /\ metadata.packages \cap {"docs", "tests", "tests.unit", "tests_helpers"} = {}
        /\ \A p \in tree :
             (Len(p) = 1 /\ StartsWith(p[1], "tests")) =>
                 p[1] \notin metadata.packages

C7_Witness ==
    /\ pc # "start"
    /\ {"docs.api", "glueservice.tests"} \subseteq metadata.packages
    /\ {"docs", "tests", "tests.unit", "tests_helpers"} \subseteq Discovered
    /\ "docs" \notin metadata.packages

====
